---- MODULE Spec2Model ----
(***************************************************************************)
(* Model of the Aerospace Compliance Checker (src/app.py): the             *)
(* ComplianceChecker instance, its validate_document entry point, the      *)
(* drawing and BOM validators, the risk score and the report.              *)
(*                                                                         *)
(* Strings are TLA+ strings; str.lower, str.upper and the `in` substring   *)
(* test are computed character by character.                               *)
(***************************************************************************)
EXTENDS Integers, Sequences, FiniteSets, TLC

(***************************************************************************)
(* Bounds of the model.                                                    *)
(***************************************************************************)
MaxRows == 3
MaxRowsOtherLayouts == 1
MaxPages == 2
MaxViolations == 22
MaxWarnings == 4
MaxRepeatRows == 1
MaxRepeatPages == 1
MaxLater == 2
MaxEngineViolations == 7
MaxEngineWarnings == 4

(***************************************************************************)
(* Python string primitives.                                               *)
(***************************************************************************)
UpperAlphabet == "ABCDEFGHIJKLMNOPQRSTUVWXYZ"
LowerAlphabet == "abcdefghijklmnopqrstuvwxyz"
Digits == "0123456789"

CharAt(s, i) == SubSeq(s, i, i)

IndexIn(c, alphabet) ==
    IF \E i \in 1..Len(alphabet) : CharAt(alphabet, i) = c
    THEN CHOOSE i \in 1..Len(alphabet) : CharAt(alphabet, i) = c
    ELSE 0

LowerChar(c) ==
    IF IndexIn(c, UpperAlphabet) > 0 THEN CharAt(LowerAlphabet, IndexIn(c, UpperAlphabet)) ELSE c

UpperChar(c) ==
    IF IndexIn(c, LowerAlphabet) > 0 THEN CharAt(UpperAlphabet, IndexIn(c, LowerAlphabet)) ELSE c

\* str.lower()
Lower(s) ==
    LET low[i \in 0..Len(s)] == IF i = 0 THEN "" ELSE low[i - 1] \o LowerChar(CharAt(s, i))
    IN  low[Len(s)]

\* str.upper()
Upper(s) ==
    LET up[i \in 0..Len(s)] == IF i = 0 THEN "" ELSE up[i - 1] \o UpperChar(CharAt(s, i))
    IN  up[Len(s)]

\* Python `needle in haystack` for strings.
Contains(haystack, needle) ==
    \E i \in 1..(Len(haystack) - Len(needle) + 1) :
        SubSeq(haystack, i, i + Len(needle) - 1) = needle

(***************************************************************************)
(* Keyword tables of ComplianceChecker.                                    *)
(***************************************************************************)
itar_keywords ==
    << "ITAR", "export control", "EAR99", "22 CFR",
       "International Traffic in Arms", "export license" >>

restricted_lexicon ==
    << "beryllium copper", "cadmium", "mercury", "lead",
       "hexavalent chromium", "asbestos" >>

traceability_keywords ==
    << "serial number", "lot number", "batch", "traceability", "track", "S/N", "L/N" >>

itar_indicators == << "MIL-", "MS", "NAS", "AN", "CAGE" >>

restricted_bom == << "BERYLLIUM", "CADMIUM", "MERCURY", "LEAD", "CHROMIUM VI", "ASBESTOS" >>

certified_suppliers ==
    << "BOEING", "LOCKHEED", "RAYTHEON", "NORTHROP",
       "HONEYWELL", "COLLINS", "PARKER", "EATON" >>

part_aliases == << "Part Number", "P/N", "Part" >>
material_aliases == << "Material", "Mat", "Composition" >>
supplier_aliases == << "Supplier", "Vendor", "Manufacturer" >>

(***************************************************************************)
(* Text checks of the drawing validator.                                   *)
(***************************************************************************)
\* The check without the two lower() calls.
check_itar_marking_case_sensitive(text) ==
    \E k \in 1..Len(itar_keywords) : Contains(text, itar_keywords[k])

\* any(keyword.lower() in text.lower() for keyword in itar_keywords)
check_itar_marking(text) ==
    \E text_lower \in {Lower(text)} :
        \E k \in 1..Len(itar_keywords) :
            \E keyword_lower \in {Lower(itar_keywords[k])} : Contains(text_lower, keyword_lower)

\* The scan with each material present put in front of those found before it.
FoundMaterialsNewestFirst(text_lower) ==
    LET found[k \in 0..Len(restricted_lexicon)] ==
            IF k = 0 THEN << >>
            ELSE IF \E material_lower \in {Lower(restricted_lexicon[k])} :
                        Contains(text_lower, material_lower)
                 THEN << restricted_lexicon[k] >> \o found[k - 1]
                 ELSE found[k - 1]
    IN  found[Len(restricted_lexicon)]

\* The lexicon is scanned in lexicon order; each material present is appended
\* once: found[k] is found_materials after the first k lexicon entries.
FoundMaterials(text_lower) ==
    LET found[k \in 0..Len(restricted_lexicon)] ==
            IF k = 0 THEN << >>
            ELSE IF \E material_lower \in {Lower(restricted_lexicon[k])} :
                        Contains(text_lower, material_lower)
                 THEN Append(found[k - 1], restricted_lexicon[k])
                 ELSE found[k - 1]
    IN  found[Len(restricted_lexicon)]

check_restricted_materials(text) ==
    CHOOSE found \in { FoundMaterials(text_lower) : text_lower \in {Lower(text)} } : TRUE

IsWhitespace(c) == c \in {" ", "\n", "\t", "\r"}
IsDigit(c) == IndexIn(c, Digits) > 0
IsUpperOrDigit(c) == IndexIn(c, UpperAlphabet) > 0 \/ IsDigit(c)

\* Positions p >= from with only whitespace in text[from..p-1]: where \s* may stop.
AfterSpaces(text, from) ==
    { p \in from..(Len(text) + 1) : \A q \in from..(p - 1) : IsWhitespace(CharAt(text, q)) }

\* Positions reachable from `from` after between lo and hi digits.
AfterDigits(text, from, lo, hi) ==
    { p \in (from + lo)..(from + hi) :
        p <= Len(text) + 1 /\ \A q \in from..(p - 1) : IsDigit(CharAt(text, q)) }

\* r'[Rr]ev[ision]?\s*[A-Z0-9]+'
MatchRev(text) ==
    \E i \in 1..Len(text) :
        /\ CharAt(text, i) \in {"R", "r"}
        /\ i + 2 <= Len(text)
        /\ SubSeq(text, i + 1, i + 2) = "ev"
        /\ \E j \in {i + 3, i + 4} :
              /\ j = i + 4 => (i + 3 <= Len(text) /\ CharAt(text, i + 3) \in {"i", "s", "o", "n"})
              /\ \E p \in AfterSpaces(text, j) :
                    p <= Len(text) /\ IsUpperOrDigit(CharAt(text, p))

\* r'[Vv]ersion\s*[0-9.]+'
MatchVersion(text) ==
    \E i \in 1..Len(text) :
        /\ CharAt(text, i) \in {"V", "v"}
        /\ i + 6 <= Len(text)
        /\ SubSeq(text, i + 1, i + 6) = "ersion"
        /\ \E p \in AfterSpaces(text, i + 7) :
              p <= Len(text) /\ (IsDigit(CharAt(text, p)) \/ CharAt(text, p) = ".")

\* r'[Dd]ate:\s*\d{1,2}[/-]\d{1,2}[/-]\d{2,4}'
MatchDate(text) ==
    \E i \in 1..Len(text) :
        /\ CharAt(text, i) \in {"D", "d"}
        /\ i + 4 <= Len(text)
        /\ SubSeq(text, i + 1, i + 4) = "ate:"
        /\ \E p \in AfterSpaces(text, i + 5) :
           \E a \in AfterDigits(text, p, 1, 2) :
              /\ a <= Len(text) /\ CharAt(text, a) \in {"/", "-"}
              /\ \E b \in AfterDigits(text, a + 1, 1, 2) :
                    /\ b <= Len(text) /\ CharAt(text, b) \in {"/", "-"}
                    /\ AfterDigits(text, b + 1, 2, 4) # {}

check_revision_marking(text) == MatchRev(text) \/ MatchVersion(text) \/ MatchDate(text)

check_traceability(text) ==
    \E text_lower \in {Lower(text)} :
        \E k \in 1..Len(traceability_keywords) :
            \E keyword_lower \in {Lower(traceability_keywords[k])} :
                Contains(text_lower, keyword_lower)

(***************************************************************************)
(* ComplianceEngine.check_itar on the raw text of a document.              *)
(***************************************************************************)
itar_markers == << "itar", "export controlled", "technical data" >>

keywords_to_check == << "military", "defense", "weapon", "missile", "satellite" >>

MissingMarkingViolation ==
    [type |-> "Missing Export Control Marking",
     description |-> "Document contains ITAR-controlled content but lacks proper marking",
     reference |-> "22 CFR 120-130",
     action |-> "Add ITAR warning statement to document"]

Max(a, b) == IF a > b THEN a ELSE b

\* ComplianceEngine.calculate_risk_score: base_score starts at 100, loses 15
\* in each pass of the loop over the violations and 5 in each pass of the
\* loop over the warnings; the result is max(0, base_score).
calculate_risk_score(engine_violations, engine_warnings) ==
    LET after_violations[i \in 0..Len(engine_violations)] ==
            IF i = 0 THEN 100 ELSE after_violations[i - 1] - 15
        after_warnings[i \in 0..Len(engine_warnings)] ==
            IF i = 0 THEN after_violations[Len(engine_violations)]
            ELSE after_warnings[i - 1] - 5
    IN  Max(0, after_warnings[Len(engine_warnings)])

\* data = {'raw_text': raw_text}
check_itar(raw_text) ==
    CHOOSE result \in
        { [violations |->
               IF \E m \in 1..Len(itar_markers) : Contains(text, itar_markers[m])
               THEN << >>
               ELSE IF \E k \in 1..Len(keywords_to_check) :
                          \E keyword_lower \in {Lower(keywords_to_check[k])} :
                              Contains(text, keyword_lower)
                    THEN << MissingMarkingViolation >>
                    ELSE << >>,
           warnings |-> << >>,
           recommendations |-> << >>] : text \in {Lower(raw_text)} } : TRUE

(***************************************************************************)
(* Cell predicates of the BOM validator.                                   *)
(***************************************************************************)
is_itar_controlled(part_number) ==
    \E part_upper \in {Upper(part_number)} :
        \E k \in 1..Len(itar_indicators) : Contains(part_upper, itar_indicators[k])

\* Equality with a lexicon entry instead of the substring test.
is_restricted_material_exact(material) ==
    \E material_upper \in {Upper(material)} :
        \E k \in 1..Len(restricted_bom) : material_upper = restricted_bom[k]

is_restricted_material(material) ==
    \E material_upper \in {Upper(material)} :
        \E k \in 1..Len(restricted_bom) : Contains(material_upper, restricted_bom[k])

is_certified_supplier(supplier) ==
    \E supplier_upper \in {Upper(supplier)} :
        \E k \in 1..Len(certified_suppliers) : Contains(supplier_upper, certified_suppliers[k])

(***************************************************************************)
(* Rendering of numbers in f-strings.                                      *)
(***************************************************************************)
Pad3(n) == IF n < 10 THEN "00" \o ToString(n) ELSE IF n < 100 THEN "0" \o ToString(n) ELSE ToString(n)

\* f"{n:,}" for n >= 0
CommaGrouped(n) ==
    LET grouped[m \in 0..n] ==
            IF m < 1000 THEN ToString(m) ELSE grouped[m \div 1000] \o "," \o Pad3(m % 1000)
    IN  grouped[n]

\* Totals t in 1000001..2000000 with t % 100000 = 50000 whose quotient t/1000000,
\* as an IEEE-754 double, lies above the decimal tie and so rounds up under
\* ".1f"; the other ties of that range lie below it (or are exact with an even
\* tenth) and round down.
TiesRoundedUp == {1050000, 1350000, 1550000, 1750000, 1850000}

\* Tenths of a million printed by f"{total/1000000:.1f}", total <= 2000000.
TenthsOfMillion(total) ==
    LET fl == total \div 100000
        rest == total % 100000
    IN  IF rest > 50000 \/ (rest = 50000 /\ total \in TiesRoundedUp) THEN fl + 1 ELSE fl

\* f"{total/1000000:.1f}"
MillionsOneDecimal(total) ==
    ToString(TenthsOfMillion(total) \div 10) \o "." \o ToString(TenthsOfMillion(total) % 10)

(***************************************************************************)
(* ComplianceChecker._calculate_risk_cost                                  *)
(***************************************************************************)
risk_cost_total(self_violations, self_warnings) ==
    Len(self_violations) * 50000 + Len(self_warnings) * 5000

format_risk_cost_ge(total) ==
    IF total >= 1000000 THEN "$" \o MillionsOneDecimal(total) \o "M potential exposure"
    ELSE IF total > 0 THEN "$" \o CommaGrouped(total) \o " potential exposure"
    ELSE "Minimal risk"

format_risk_cost_zero(total) ==
    IF total > 1000000 THEN "$" \o MillionsOneDecimal(total) \o "M potential exposure"
    ELSE IF total >= 0 THEN "$" \o CommaGrouped(total) \o " potential exposure"
    ELSE "Minimal risk"

format_risk_cost(total) ==
    IF total > 1000000 THEN "$" \o MillionsOneDecimal(total) \o "M potential exposure"
    ELSE IF total > 0 THEN "$" \o CommaGrouped(total) \o " potential exposure"
    ELSE "Minimal risk"

calculate_risk_cost(self_violations, self_warnings) ==
    format_risk_cost(risk_cost_total(self_violations, self_warnings))

(***************************************************************************)
(* Documents: pandas cells and frames, PDF pages, uploaded files.          *)
(***************************************************************************)
NaN == [isna |-> TRUE, val |-> ""]
Cell(v) == [isna |-> FALSE, val |-> v]

\* str(cell)
Str(cell) == IF cell.isna THEN "nan" ELSE cell.val

None == [some |-> FALSE, label |-> ""]
Some(label) == [some |-> TRUE, label |-> label]
\* truth value of an Optional[str]
Truthy(opt) == opt.some /\ opt.label # ""

\* row.get(col, default): the cell under a column label, the default without one
RowGet(row, col, default) ==
    IF col.some /\ col.label \in DOMAIN row THEN row[col.label] ELSE default

\* the value an f-string prints for row.get(part_col, "Unknown")
RowGetStr(row, col, default) ==
    IF col.some /\ col.label \in DOMAIN row THEN Str(row[col.label]) ELSE default

\* name.lower() in str(col).lower() for some name of possible_names
HeaderMatches(col, possible_names) ==
    \E col_lower \in {Lower(col)} :
        \E n \in 1..Len(possible_names) :
            \E name_lower \in {Lower(possible_names[n])} : Contains(col_lower, name_lower)

\* The two loops exchanged: aliases outermost, columns innermost.
find_column_alias_major(df, possible_names) ==
    LET matched == { n \in 1..Len(possible_names) :
                       \E c \in 1..Len(df.columns) :
                           HeaderMatches(df.columns[c], << possible_names[n] >>) }
        first == CHOOSE n \in matched : \A m \in matched : n <= m
        matching == { c \in 1..Len(df.columns) :
                        HeaderMatches(df.columns[c], << possible_names[first] >>) }
    IN  IF matched = {} THEN None
        ELSE Some(df.columns[CHOOSE c \in matching : \A b \in matching : c <= b])

\* ComplianceChecker._find_column: columns outermost, aliases innermost, so
\* the leftmost column with a matching header is returned.
find_column(df, possible_names) ==
    LET matching == { c \in 1..Len(df.columns) : HeaderMatches(df.columns[c], possible_names) }
    IN  IF matching = {} THEN None
        ELSE Some(df.columns[CHOOSE c \in matching : \A b \in matching : c <= b])

(***************************************************************************)
(* Findings appended by the validators.                                    *)
(***************************************************************************)
\* f'Row {idx + 2}', idx the 0-based index label of the row
RowLocationOffByOne(idx) == "Row " \o ToString(idx + 1)

RowLocation(idx) == "Row " \o ToString(idx + 2)

ItarBomFinding(row, idx, part_col) ==
    [rule |-> "ITAR-BOM-001",
     description |-> "ITAR controlled part: " \o RowGetStr(row, part_col, "Unknown"),
     severity |-> "HIGH",
     fix |-> "Ensure proper export licensing",
     location |-> RowLocation(idx)]

MaterialBomFinding(row, idx, part_col, material) ==
    [rule |-> "AS9100-MAT-002",
     description |-> "Restricted material in BOM: " \o material,
     severity |-> "HIGH",
     fix |-> "Replace with approved material",
     location |-> RowLocation(idx) \o ", Part: " \o RowGetStr(row, part_col, "Unknown")]

SupplierFinding(idx, supplier) ==
    [rule |-> "AS9100-SUP-001",
     description |-> "Non-certified supplier: " \o supplier,
     severity |-> "MEDIUM",
     fix |-> "Verify AS9100 certification status",
     location |-> RowLocation(idx)]

MissingPartFinding(idx) ==
    [rule |-> "AS9100-DATA-001",
     description |-> "Missing part number",
     severity |-> "HIGH",
     fix |-> "All items must have part numbers",
     location |-> RowLocation(idx)]

\* The finding of the drawing handler in place of the BOM handler's own.
BomSystemFindingAsDrawing(error) ==
    [rule |-> "SYSTEM",
     description |-> "Error processing BOM: " \o error,
     severity |-> "LOW",
     fix |-> "Manual review recommended"]

BomSystemFinding(error) ==
    [rule |-> "SYSTEM",
     description |-> "Error processing BOM: " \o error,
     severity |-> "MEDIUM",
     fix |-> "Check file format and structure"]

ItarFinding ==
    [rule |-> "ITAR-001",
     description |-> "Missing ITAR export control statement",
     severity |-> "HIGH",
     fix |-> "Add standard ITAR warning to title block",
     cost_impact |-> "$10,000-$100,000 potential fine"]

MaterialFinding(material) ==
    [rule |-> "AS9100-MAT-001",
     description |-> "Restricted material detected: " \o material,
     severity |-> "HIGH",
     fix |-> "Replace " \o material \o " with approved alternative",
     cost_impact |-> "Potential rejection of entire batch"]

RevisionFinding ==
    [rule |-> "AS9100-DOC-002",
     description |-> "No revision number detected",
     severity |-> "MEDIUM",
     fix |-> "Add revision letter/number to title block"]

TraceabilityFinding ==
    [rule |-> "AS9100-TRACE-001",
     description |-> "Missing traceability requirements",
     severity |-> "HIGH",
     fix |-> "Add serial number or lot traceability note"]

DrawingSystemFinding(error) ==
    [rule |-> "SYSTEM",
     description |-> "Could not fully parse drawing: " \o error,
     severity |-> "LOW",
     fix |-> "Manual review recommended"]

(***************************************************************************)
(* ComplianceChecker._validate_bom                                         *)
(***************************************************************************)
\* The findings a validator appends, in order, to each of the two lists.
NoFindings == [violations |-> << >>, warnings |-> << >>]

\* The body of the loop over df.iterrows() for the row with index label idx:
\* the four checks in source order, each appending to self.violations or
\* self.warnings (acc holds what the loop has appended so far).
BomRow(acc, row, idx, part_col, material_col, supplier_col) ==
    LET s1 == IF Truthy(part_col) /\ is_itar_controlled(Str(RowGet(row, part_col, Cell(""))))
              THEN [acc EXCEPT !.warnings = Append(@, ItarBomFinding(row, idx, part_col))]
              ELSE acc
        material == Upper(Str(RowGet(row, material_col, Cell(""))))
        s2 == IF /\ Truthy(material_col)
                 /\ ~RowGet(row, material_col, NaN).isna
                 /\ is_restricted_material(material)
              THEN [s1 EXCEPT !.violations =
                        Append(@, MaterialBomFinding(row, idx, part_col, material))]
              ELSE s1
        supplier == Str(RowGet(row, supplier_col, Cell("")))
        s3 == IF /\ Truthy(supplier_col)
                 /\ ~RowGet(row, supplier_col, NaN).isna
                 /\ ~is_certified_supplier(supplier)
              THEN [s2 EXCEPT !.warnings = Append(@, SupplierFinding(idx, supplier))]
              ELSE s2
        s4 == IF Truthy(part_col) /\ RowGet(row, part_col, NaN).isna
              THEN [s3 EXCEPT !.violations = Append(@, MissingPartFinding(idx))]
              ELSE s3
    IN  s4

\* for idx, row in df.iterrows(): loop[i] is what the loop has appended after
\* the first i rows, whose index labels are 0, 1, ...
BomRowsReversed(df, part_col, material_col, supplier_col) ==
    LET n == Len(df.rows)
        loop[i \in 0..n] ==
            IF i = 0 THEN NoFindings
            ELSE BomRow(loop[i - 1], df.rows[n + 1 - i], n - i, part_col, material_col, supplier_col)
    IN  loop[n]

BomRows(df, part_col, material_col, supplier_col) ==
    LET loop[i \in 0..Len(df.rows)] ==
            IF i = 0 THEN NoFindings
            ELSE BomRow(loop[i - 1], df.rows[i], i - 1, part_col, material_col, supplier_col)
    IN  loop[Len(df.rows)]

\* Lines 125-174: the three column lookups, then the loop over the rows.
BomChecks(df) ==
    CHOOSE appended \in
        { BomRows(df, part_col, material_col, supplier_col) :
              part_col \in {find_column(df, part_aliases)},
              material_col \in {find_column(df, material_aliases)},
              supplier_col \in {find_column(df, supplier_aliases)} } : TRUE

(***************************************************************************)
(* ComplianceChecker._validate_technical_drawing                           *)
(***************************************************************************)
\* for material in restricted_materials: self.violations.append(...)
AppendMaterials(found_so_far, materials) ==
    LET appended[k \in 0..Len(materials)] ==
            IF k = 0 THEN found_so_far ELSE Append(appended[k - 1], MaterialFinding(materials[k]))
    IN  appended[Len(materials)]

\* The checks with an exit after the first one that appends a finding.
DrawingChecksEarlyExit(text) ==
    IF ~check_itar_marking(text)
    THEN [NoFindings EXCEPT !.violations = Append(@, ItarFinding)]
    ELSE IF check_restricted_materials(text) # << >>
    THEN [NoFindings EXCEPT !.violations = AppendMaterials(@, check_restricted_materials(text))]
    ELSE IF ~check_revision_marking(text)
    THEN [NoFindings EXCEPT !.warnings = Append(@, RevisionFinding)]
    ELSE IF ~check_traceability(text)
    THEN [NoFindings EXCEPT !.violations = Append(@, TraceabilityFinding)]
    ELSE NoFindings

\* Lines 67-104: the four checks in source order.
DrawingChecks(text) ==
    LET s1 == IF ~check_itar_marking(text)
              THEN [NoFindings EXCEPT !.violations = Append(@, ItarFinding)] ELSE NoFindings
        s2 == [s1 EXCEPT !.violations = AppendMaterials(@, check_restricted_materials(text))]
        s3 == IF ~check_revision_marking(text)
              THEN [s2 EXCEPT !.warnings = Append(@, RevisionFinding)] ELSE s2
        s4 == IF ~check_traceability(text)
              THEN [s3 EXCEPT !.violations = Append(@, TraceabilityFinding)] ELSE s3
    IN  s4

(***************************************************************************)
(* The uploads the model validates.  A file under uploads/ is named by     *)
(* what it holds: a table (a header row and some rows), a PDF (some        *)
(* pages), or bytes no decoder reads.                                      *)
(***************************************************************************)
\* Row contents by field: a part number, a material and a supplier cell.
RowData ==
    << [part |-> Cell("MIL-123"), material |-> Cell("Steel"), supplier |-> Cell("Boeing")],
       [part |-> NaN, material |-> Cell("Cadmium Plating 0.002in"), supplier |-> Cell("Acme")],
       [part |-> Cell("P-100"), material |-> NaN, supplier |-> NaN],
       [part |-> Cell("P-200"), material |-> Cell("Aluminum"), supplier |-> Cell("Acme")],
       [part |-> Cell("P-300"), material |-> Cell("cadmium"), supplier |-> Cell("Boeing")] >>

\* Header rows: each column has a header and the field its cells hold.
Layouts ==
    << << [header |-> "Part Number", field |-> "part"],
          [header |-> "Material", field |-> "material"],
          [header |-> "Supplier", field |-> "supplier"] >>,
       << [header |-> "Item", field |-> "part"],
          [header |-> "Composition", field |-> "material"],
          [header |-> "Vendor", field |-> "supplier"] >>,
       << [header |-> "Vendor Part", field |-> "part"],
          [header |-> "material spec", field |-> "material"],
          [header |-> "Supplier", field |-> "supplier"] >> >>

PageTexts ==
    << "ITAR controlled. Rev A. S/N 001",
       "bracket, lead then Cadmium plate",
       "iTaR",
       "CADMIUM cadmium Cadmium batch 7",
       "Version 2.1",
       "plain housing" >>

SeqsUpTo(S, n) == UNION { [1..k -> S] : k \in 0..n }

TableFile(layout, rows) == [kind |-> "table", layout |-> layout, content |-> rows]
PdfFile(pages) == [kind |-> "pdf", layout |-> 0, content |-> pages]
CorruptFile == [kind |-> "corrupt", layout |-> 0, content |-> << >>]

\* Tables under the first header row have up to maxRows rows, tables under
\* the other header rows up to MaxRowsOtherLayouts of them.
TableFiles(maxRows) ==
    { TableFile(1, rows) : rows \in SeqsUpTo(1..Len(RowData), maxRows) }
    \cup { TableFile(l, rows) :
             l \in 2..Len(Layouts),
             rows \in SeqsUpTo(1..Len(RowData),
                               IF maxRows < MaxRowsOtherLayouts THEN maxRows
                               ELSE MaxRowsOtherLayouts) }

PdfFiles(maxPages) == { PdfFile(pages) : pages \in SeqsUpTo(1..Len(PageTexts), maxPages) }

\* (file_path, doc_type) pairs: each file under its own document kind, files
\* that fail to decode, and document kinds no validator handles.
RequestsUpTo(maxRows, maxPages) ==
    { [file_path |-> f, doc_type |-> "bom"] : f \in TableFiles(maxRows) }
    \cup { [file_path |-> f, doc_type |-> "drawing"] : f \in PdfFiles(maxPages) }
    \cup { [file_path |-> CorruptFile, doc_type |-> t] : t \in {"bom", "drawing"} }
    \cup { [file_path |-> f, doc_type |-> "specification"] : f \in TableFiles(0) \cup PdfFiles(0) }

Requests == RequestsUpTo(MaxRows, MaxPages)

\* str() of the FileNotFoundError that open() and os.remove() raise for the
\* path the requests share when no file is stored there.
FileNotFound == "[Errno 2] No such file or directory: 'uploads/bom.csv'"

\* The DataFrame pandas reads from a table file: the headers as column
\* labels, each row a mapping from column label to cell.
DataFrame(file) ==
    LET layout == Layouts[file.layout]
    IN  [columns |-> [c \in 1..Len(layout) |-> layout[c].header],
         rows |-> [i \in 1..Len(file.content) |->
                     [h \in { layout[c].header : c \in 1..Len(layout) } |->
                         LET c == CHOOSE c \in 1..Len(layout) : layout[c].header = h
                         IN  RowData[file.content[i]][layout[c].field]]]]

\* pd.read_excel / pd.read_csv: the frame of a table file, an exception otherwise
ReadTable(file) ==
    IF file.kind = "table" THEN [ok |-> TRUE, df |-> DataFrame(file), error |-> ""]
    ELSE [ok |-> FALSE, df |-> [columns |-> << >>, rows |-> << >>],
          error |-> IF file.kind = "missing" THEN FileNotFound
                    ELSE "No columns to parse from file"]

\* text += page.extract_text() + "\n" over the pages
JoinPages(pages) ==
    LET text[i \in 0..Len(pages)] ==
            IF i = 0 THEN "" ELSE text[i - 1] \o PageTexts[pages[i]] \o "\n"
    IN  text[Len(pages)]

\* ComplianceChecker._extract_pdf_text
extract_pdf_text(file) ==
    IF file.kind = "pdf" THEN [ok |-> TRUE, text |-> JoinPages(file.content), error |-> ""]
    ELSE [ok |-> FALSE, text |-> "",
          error |-> "PDF extraction failed: "
                    \o (IF file.kind = "missing" THEN FileNotFound ELSE "EOF marker not found")]

(***************************************************************************)
(* The validators applied to the files of the model.  What a validator     *)
(* appends depends on the file alone, so it is computed once per file (the  *)
(* merge with the empty function makes TLC tabulate the function).         *)
(***************************************************************************)
BomAppended ==
    [f \in TableFiles(MaxRows) |->
        CHOOSE appended \in { BomChecks(df) : df \in {DataFrame(f)} } : TRUE] @@ << >>

DrawingAppended ==
    [f \in PdfFiles(MaxPages) |->
        CHOOSE appended \in { DrawingChecks(text) : text \in {extract_pdf_text(f).text} } : TRUE]
    @@ << >>

\* The read at lines 118-121 raises exactly for the files that hold no table
\* (ReadTable(file).ok); the frame itself is used through BomAppended.
validate_bom(self, file) ==
    LET read == ReadTable(file)
    IN  IF file.kind = "table"
        THEN CHOOSE after \in
                 { [self EXCEPT !.checked_items = Len(file.content),
                                !.violations = @ \o appended.violations,
                                !.warnings = @ \o appended.warnings] :
                       appended \in {BomAppended[file]} } : TRUE
        ELSE [self EXCEPT !.warnings = Append(@, BomSystemFinding(read.error))]

\* The extraction at line 65 raises exactly for the files that are no PDF
\* (extract_pdf_text(file).ok); the text itself is used through DrawingAppended.
validate_technical_drawing(self, file) ==
    LET extracted == extract_pdf_text(file)
    IN  IF file.kind = "pdf"
        THEN CHOOSE after \in
                 { [self EXCEPT !.violations = @ \o appended.violations,
                                !.warnings = @ \o appended.warnings] :
                       appended \in {DrawingAppended[file]} } : TRUE
        ELSE [self EXCEPT !.warnings = Append(@, DrawingSystemFinding(extracted.error))]


(***************************************************************************)
(* ComplianceChecker._generate_report and validate_document                *)
(***************************************************************************)
Min(a, b) == IF a < b THEN a ELSE b

\* datetime.now(): the readings of the clock, as the microseconds past the
\* second the calls are made in.
Clock == {0, 250000}

Pad6(n) ==
    LET digits == ToString(n)
    IN  SubSeq("000000", 1, 6 - Len(digits)) \o digits

\* datetime.isoformat(): the fraction is left out when the microsecond is 0
isoformat(now) ==
    "2026-11-03T09:00:00" \o (IF now = 0 THEN "" ELSE "." \o Pad6(now))

generate_report(self, now) ==
    [status |-> IF Len(self.violations) = 0 THEN "PASS" ELSE "FAIL",
     risk_score |-> self.risk_score,
     violations |-> self.violations,
     warnings |-> self.warnings,
     checked_items |-> self.checked_items,
     timestamp |-> isoformat(now),
     summary |-> [total_violations |-> Len(self.violations),
                  total_warnings |-> Len(self.warnings),
                  estimated_risk |-> calculate_risk_cost(self.violations, self.warnings)]]

\* Lines 47-49: the three fields validate_document resets (checked_items is
\* not one of them).
ResetNothing(self) == self

\* Line 48 left out.
ResetViolationsOnly(self) == [self EXCEPT !.violations = << >>, !.risk_score = 0]

\* Lines 47 and 48 left out.
ResetScoreOnly(self) == [self EXCEPT !.risk_score = 0]

Reset(self) == [self EXCEPT !.violations = << >>, !.warnings = << >>, !.risk_score = 0]

\* Line 57: min(100, len(self.violations) * 15 + len(self.warnings) * 5)
compute_risk_score(self_violations, self_warnings) ==
    Min(100, Len(self_violations) * 15 + Len(self_warnings) * 5)

\* Lines 51-54: the validator of the document kind, none for other kinds.
validate_by_kind(self, file_path, doc_type) ==
    IF doc_type = "drawing" THEN validate_technical_drawing(self, file_path)
    ELSE IF doc_type = "bom" THEN validate_bom(self, file_path)
    ELSE self

\* The instance after validate_document(file_path, doc_type); its return
\* value is generate_report of that instance.
validate_document(self, file_path, doc_type) ==
    LET s0 == Reset(self)
        validated == validate_by_kind(s0, file_path, doc_type)
    IN  CHOOSE after \in
            { [s1 EXCEPT !.risk_score = compute_risk_score(s1.violations, s1.warnings)] :
                  s1 \in {validated} } : TRUE

(***************************************************************************)
(* Exceptions.  A block of code either completes or raises; the validators *)
(* wrap their whole body in try / except Exception (lines 63-112 and       *)
(* 116-182).                                                               *)
(***************************************************************************)
NoException == [raised |-> FALSE, error |-> ""]
Raise(error) == [raised |-> TRUE, error |-> error]

\* What leaves the try block of _validate_bom (lines 116-174): the exception
\* of the read at lines 118-121; the cells of a frame are strings or NaN, and
\* neither str(), pd.isna() nor row.get() raises on them.
bom_try_raises(file) ==
    IF file.kind = "table" THEN NoException
    ELSE Raise(ReadTable(file).error)

\* What leaves the try block of _validate_technical_drawing (lines 63-104):
\* the exception _extract_pdf_text raises at line 193; the four checks work
\* on a str and do not raise.
drawing_try_raises(file) ==
    IF file.kind = "pdf" THEN NoException
    ELSE Raise(extract_pdf_text(file).error)

\* An except clause that appends its finding and raises the exception again.
AfterExceptReraised(exception) == exception

\* except Exception as e (lines 106-112 and 176-182): the handler appends one
\* finding built with str(e) and completes, so nothing leaves the validator.
AfterExcept(exception) == NoException

\* What validate_document raises: lines 47-49, 57 and 59 assign, take len()
\* and build a dict, so only the validators of lines 51-54 could raise.
validate_document_raises(file_path, doc_type) ==
    IF doc_type = "drawing" THEN AfterExcept(drawing_try_raises(file_path))
    ELSE IF doc_type = "bom" THEN AfterExcept(bom_try_raises(file_path))
    ELSE NoException

(***************************************************************************)
(* State: the module-level ComplianceChecker instance, the last call of    *)
(* validate_document with the report it returned, and a report a caller    *)
(* has kept from an earlier call, and the request handlers of the server   *)
(* that are inside validate_document at the same time.  The list objects   *)
(* behind the fields, the uploads/ directory and the ComplianceEngine are  *)
(* followed by the specifications about them and stand still in the others.*)
(***************************************************************************)
VARIABLES
    violations,     \* checker.violations
    warnings,       \* checker.warnings
    risk_score,     \* checker.risk_score
    checked_items,  \* checker.checked_items
    request,        \* the arguments of the last validate_document call
    report,         \* the report that call returned
    kept,           \* an earlier call and its report, with the calls made since
    threads,        \* per handler thread: its position, its request, its report
    heap,           \* the list objects, and which of them the checker and a kept report hold
    uploads,        \* the file stored at the path under uploads/ the requests share
    engine          \* a call of ComplianceEngine.calculate_risk_score: inputs and result

vars == << violations, warnings, risk_score, checked_items, request, report, kept, threads,
           heap, uploads, engine >>

\* The state only some of the specifications follow.
aside == << heap, uploads, engine >>

Self == [violations |-> violations, warnings |-> warnings,
         risk_score |-> risk_score, checked_items |-> checked_items]

NoRequest == [file_path |-> CorruptFile, doc_type |-> ""]
NoReport == [status |-> ""]

\* What the caller of validate_document holds when the call raised instead of
\* returning.
Propagated(exception) == [status |-> "", exception |-> exception.error]
NoKept == [request |-> NoRequest, report |-> NoReport, later |-> 0]

\* self.violations = [] and self.warnings = [] of __init__ (lines 31-32) make
\* two list objects; an object is named by its index in heap.lists.  No
\* report is held by a caller yet.
NewHeap == [lists |-> << << >>, << >> >>, violations |-> 1, warnings |-> 2, returned |-> NoReport]

\* os.makedirs('uploads', exist_ok=True) (line 24): no file at the path yet.
Absent == [kind |-> "missing", layout |-> 0, content |-> << >>]

\* calculate_risk_score has not been called.
NoEngineCall == [violations |-> << >>, warnings |-> << >>, called |-> FALSE, score |-> 0,
                 added |-> FALSE, previous |-> 0]

\* A checker as __init__ leaves it.
FreshChecker == [violations |-> << >>, warnings |-> << >>, risk_score |-> 0, checked_items |-> 0]

\* The handler threads of the threaded server.
Workers == {"first", "second"}
Idle == [pc |-> "idle", request |-> NoRequest, report |-> NoReport]

\* ComplianceChecker.__init__ (line 312: checker = ComplianceChecker())
Init ==
    /\ violations = << >>
    /\ warnings = << >>
    /\ risk_score = 0
    /\ checked_items = 0
    /\ request = NoRequest
    /\ report = NoReport
    /\ kept = NoKept
    /\ threads = [t \in Workers |-> Idle]
    /\ heap = NewHeap
    /\ uploads = Absent
    /\ engine = NoEngineCall

\* report = checker.validate_document(filepath, doc_type)
\* (a call that raised in the validator would leave the checker as the
\* validator left it, line 57 not reached)
ValidateDocument(req) ==
    \E exception \in {validate_document_raises(req.file_path, req.doc_type)} :
    \E after \in {IF exception.raised
                   THEN validate_by_kind(Reset(Self), req.file_path, req.doc_type)
                   ELSE validate_document(Self, req.file_path, req.doc_type)} :
    \E now \in Clock :
        /\ violations' = after.violations
        /\ warnings' = after.warnings
        /\ risk_score' = after.risk_score
        /\ checked_items' = after.checked_items
        /\ request' = req
        /\ report' = IF exception.raised THEN Propagated(exception)
                     ELSE generate_report(after, now)

Next == \E req \in Requests : ValidateDocument(req) /\ UNCHANGED << kept, threads, aside >>

Spec == Init /\ [][Next]_vars

(***************************************************************************)
(* Repeated validation: the caller may keep the report of a call and       *)
(* compare it with the reports of later calls.                             *)
(***************************************************************************)
\* The repeated calls draw their tables from the first header row with the
\* rows of RepeatRowKinds, and their PDFs from the pages of RepeatPageKinds.
RepeatRowKinds == {1, 2}
RepeatPageKinds == {1, 6}

RepeatRequests ==
    { req \in RequestsUpTo(MaxRepeatRows, MaxRepeatPages) :
        \E f \in {req.file_path} :
            /\ f.kind = "table" =>
                  f.layout = 1 /\ \A i \in 1..Len(f.content) : f.content[i] \in RepeatRowKinds
            /\ f.kind = "pdf" =>
                  \A i \in 1..Len(f.content) : f.content[i] \in RepeatPageKinds }

ValidateAndKeep(req) ==
    /\ ValidateDocument(req)
    /\ kept' = [request |-> req, report |-> report', later |-> 0]
    /\ UNCHANGED << threads, aside >>

ValidateLater(req) ==
    /\ ValidateDocument(req)
    /\ kept' = IF kept = NoKept THEN kept
               ELSE IF req = kept.request THEN kept
               ELSE [kept EXCEPT !.later = Min(@ + 1, MaxLater)]
    /\ UNCHANGED << threads, aside >>

NextRepeat ==
    \E req \in RepeatRequests : ValidateAndKeep(req) \/ ValidateLater(req)

SpecRepeat == Init /\ [][NextRepeat]_vars

(***************************************************************************)
(* _calculate_risk_cost over list lengths beyond those of the documents    *)
(* above: the checker at line 59, after a BOM whose first v rows each      *)
(* hold a restricted material and whose next w rows each name a supplier   *)
(* that is not certified, has v violations and w warnings.                 *)
(***************************************************************************)
CostFile(v, w) == TableFile(2, [i \in 1..(v + w) |-> IF i <= v THEN 5 ELSE 4])

InitCost ==
    \E v \in 0..MaxViolations, w \in 0..MaxWarnings :
    \E appended \in {BomChecks(DataFrame(CostFile(v, w)))} :
        /\ violations = appended.violations
        /\ warnings = appended.warnings
        /\ risk_score = compute_risk_score(appended.violations, appended.warnings)
        /\ checked_items = v + w
        /\ request = [file_path |-> CostFile(v, w), doc_type |-> "bom"]
        /\ report = NoReport
        /\ kept = NoKept
        /\ threads = [t \in Workers |-> Idle]
        /\ heap = NewHeap
        /\ uploads = Absent
        /\ engine = NoEngineCall

\* return self._generate_report()
GenerateReport ==
    /\ report = NoReport
    /\ \E now \in Clock : report' = generate_report(Self, now)
    /\ UNCHANGED << violations, warnings, risk_score, checked_items, request, kept, threads, aside >>

NextCost == GenerateReport

SpecCost == InitCost /\ [][NextCost]_vars

(***************************************************************************)
(* Concurrent requests: /api/validate runs in one thread per request, and  *)
(* every thread calls validate_document on the module-level checker.  A    *)
(* thread may be preempted between any two statements; the steps below     *)
(* preempt it only between the reset (lines 47-49), the validator (lines   *)
(* 51-54), the score (line 57) and the report (line 59 and the jsonify of  *)
(* line 343), so every behaviour here is one the server can show.          *)
(***************************************************************************)
ConcurrentRequests ==
    { [file_path |-> TableFile(1, << 1 >>), doc_type |-> "bom"],
      [file_path |-> TableFile(1, << 2 >>), doc_type |-> "bom"],
      [file_path |-> PdfFile(<< 1 >>), doc_type |-> "drawing"],
      [file_path |-> PdfFile(<< 6 >>), doc_type |-> "drawing"],
      [file_path |-> PdfFile(<< >>), doc_type |-> "specification"] }

SetSelf(after) ==
    /\ violations' = after.violations
    /\ warnings' = after.warnings
    /\ risk_score' = after.risk_score
    /\ checked_items' = after.checked_items

\* Lines 320-338: the handler has saved the upload and calls validate_document.
Receive(t, req) ==
    /\ threads[t].pc = "idle"
    /\ threads' = [threads EXCEPT ![t] = [pc |-> "reset", request |-> req, report |-> NoReport]]
    /\ UNCHANGED << violations, warnings, risk_score, checked_items, request, report, kept, aside >>

\* Lines 47-49
ResetStep(t) ==
    /\ threads[t].pc = "reset"
    /\ SetSelf(Reset(Self))
    /\ threads' = [threads EXCEPT ![t].pc = "validate"]
    /\ UNCHANGED << request, report, kept, aside >>

\* Lines 51-54
ValidateStep(t) ==
    /\ threads[t].pc = "validate"
    /\ SetSelf(validate_by_kind(Self, threads[t].request.file_path, threads[t].request.doc_type))
    /\ threads' = [threads EXCEPT ![t].pc = "score"]
    /\ UNCHANGED << request, report, kept, aside >>

\* Line 57
ScoreStep(t) ==
    /\ threads[t].pc = "score"
    /\ risk_score' = compute_risk_score(violations, warnings)
    /\ threads' = [threads EXCEPT ![t].pc = "report"]
    /\ UNCHANGED << violations, warnings, checked_items, request, report, kept, aside >>

\* Line 59 and line 343: the report is built and serialised.
ReportStep(t) ==
    /\ threads[t].pc = "report"
    /\ \E now \in Clock :
          threads' = [threads EXCEPT ![t].pc = "done", ![t].report = generate_report(Self, now)]
    /\ UNCHANGED << violations, warnings, risk_score, checked_items, request, report, kept, aside >>

\* The response is sent and the thread is free for the next request.
Respond(t) ==
    /\ threads[t].pc = "done"
    /\ threads' = [threads EXCEPT ![t] = Idle]
    /\ UNCHANGED << violations, warnings, risk_score, checked_items, request, report, kept, aside >>

NextConcurrent ==
    \E t \in Workers :
        \/ \E req \in ConcurrentRequests : Receive(t, req)
        \/ ResetStep(t)
        \/ ValidateStep(t)
        \/ ScoreStep(t)
        \/ ReportStep(t)
        \/ Respond(t)

SpecConcurrent == Init /\ [][NextConcurrent]_vars

(***************************************************************************)
(* Uploads with the same name.  validate() stores every upload at          *)
(* uploads/<secure_filename(file.filename)> (lines 332-334), validates the *)
(* file at that path (line 338) and removes it (line 341); the requests    *)
(* below all upload a file named bom.csv.  A thread is preempted only      *)
(* between these three statements, validate_document running in one step.  *)
(***************************************************************************)
UploadRequests ==
    { [file_path |-> TableFile(1, rows), doc_type |-> "bom"] :
          rows \in SeqsUpTo(RepeatRowKinds, 1) }

\* Line 345: jsonify({'error': str(e)}), 500
ErrorResponse(error) == [status |-> "", error |-> error]

\* Lines 332-334: file.save(filepath) writes the upload over whatever the
\* path holds.
Save(t, req) ==
    /\ threads[t].pc = "idle"
    /\ uploads' = req.file_path
    /\ threads' = [threads EXCEPT ![t] = [pc |-> "saved", request |-> req, report |-> NoReport]]
    /\ UNCHANGED << violations, warnings, risk_score, checked_items, request, report, kept,
                    heap, engine >>

\* Line 338: validate_document reads the file the path holds now.
ValidateUpload(t) ==
    /\ threads[t].pc = "saved"
    /\ \E after \in {validate_document(Self, uploads, threads[t].request.doc_type)} :
       \E now \in Clock :
          /\ SetSelf(after)
          /\ threads' = [threads EXCEPT ![t].pc = "validated",
                                        ![t].report = generate_report(after, now)]
    /\ UNCHANGED << request, report, kept, aside >>

\* Lines 341-345: os.remove(filepath) raises when the path holds no file, and
\* the handler then answers with the error instead of the report.
Remove(t) ==
    /\ threads[t].pc = "validated"
    /\ uploads' = Absent
    /\ threads' = [threads EXCEPT ![t].pc = "done",
                                  ![t].report = IF uploads = Absent THEN ErrorResponse(FileNotFound)
                                                ELSE @]
    /\ UNCHANGED << violations, warnings, risk_score, checked_items, request, report, kept,
                    heap, engine >>

NextUploads ==
    \E t \in Workers :
        \/ \E req \in UploadRequests : Save(t, req)
        \/ ValidateUpload(t)
        \/ Remove(t)
        \/ Respond(t)

SpecUploads == Init /\ [][NextUploads]_vars

(***************************************************************************)
(* ComplianceEngine.calculate_risk_score, called with lists of findings    *)
(* and called again after one more finding was added to one of the lists.  *)
(***************************************************************************)
\* The lists hold findings as check_itar builds them; the function looks at
\* none of their entries.
EngineFindings(n) == [i \in 1..n |-> MissingMarkingViolation]

InitEngine ==
    /\ violations = << >>
    /\ warnings = << >>
    /\ risk_score = 0
    /\ checked_items = 0
    /\ request = NoRequest
    /\ report = NoReport
    /\ kept = NoKept
    /\ threads = [t \in Workers |-> Idle]
    /\ heap = NewHeap
    /\ uploads = Absent
    /\ \E v \in 0..MaxEngineViolations, w \in 0..MaxEngineWarnings :
          engine = [NoEngineCall EXCEPT !.violations = EngineFindings(v),
                                        !.warnings = EngineFindings(w)]

\* The ComplianceChecker and the server, which the engine does not touch.
checker_and_server ==
    << violations, warnings, risk_score, checked_items, request, report, kept, threads,
       heap, uploads >>

\* score = engine.calculate_risk_score(violations, warnings)
CalculateRiskScore ==
    /\ ~engine.called
    /\ engine' = [engine EXCEPT !.called = TRUE,
                                !.score = calculate_risk_score(engine.violations, engine.warnings)]
    /\ UNCHANGED checker_and_server

\* The call is repeated with one more violation in the list.
AddViolation ==
    /\ engine.called
    /\ Len(engine.violations) < MaxEngineViolations
    /\ \E longer \in {Append(engine.violations, MissingMarkingViolation)} :
          engine' = [engine EXCEPT !.violations = longer,
                                  !.added = TRUE,
                                  !.previous = engine.score,
                                  !.score = calculate_risk_score(longer, engine.warnings)]
    /\ UNCHANGED checker_and_server

\* The call is repeated with one more warning in the list.
AddWarning ==
    /\ engine.called
    /\ Len(engine.warnings) < MaxEngineWarnings
    /\ \E longer \in {Append(engine.warnings, MissingMarkingViolation)} :
          engine' = [engine EXCEPT !.warnings = longer,
                                  !.added = TRUE,
                                  !.previous = engine.score,
                                  !.score = calculate_risk_score(engine.violations, longer)]
    /\ UNCHANGED checker_and_server

NextEngine == CalculateRiskScore \/ AddViolation \/ AddWarning

SpecEngine == InitEngine /\ [][NextEngine]_vars

(***************************************************************************)
(* Reports by reference.  The dict _generate_report returns holds the very *)
(* list objects self.violations and self.warnings name (lines 287-288),    *)
(* not copies; its other entries are ints and strs.  heap.lists are the    *)
(* list objects, heap.violations and heap.warnings the ones the checker's  *)
(* fields name, heap.returned the dict a caller kept.                      *)
(***************************************************************************)
\* self.violations.clear() and self.warnings.clear(): the objects the fields
\* name are emptied.
reset_lists_in_place(h) ==
    [h EXCEPT !.lists[h.violations] = << >>, !.lists[h.warnings] = << >>]

\* Lines 47-48: self.violations = [] and self.warnings = [] make two new list
\* objects and bind the fields to them; the objects named before stay as
\* they are.
reset_lists(h) ==
    [h EXCEPT !.lists = @ \o << << >>, << >> >>,
              !.violations = Len(h.lists) + 1,
              !.warnings = Len(h.lists) + 2]

\* self.violations.append(...) and self.warnings.append(...) of the
\* validators (lines 51-54) extend the objects the fields name.
append_in_place(h, appended) ==
    [h EXCEPT !.lists[h.violations] = @ \o appended.violations,
              !.lists[h.warnings] = @ \o appended.warnings]

\* Lines 284-296: the dict as the caller holds it, its two lists by reference.
report_by_reference(h, returned) ==
    [returned EXCEPT !.violations = h.violations, !.warnings = h.warnings]

\* The dict with the present contents of the lists it refers to.
Dereferenced(h, dict) ==
    [dict EXCEPT !.violations = h.lists[dict.violations], !.warnings = h.lists[dict.warnings]]

\* Garbage collection: the list objects neither the checker nor the kept
\* dict refers to are dropped, the others keep their order.
Live(h) ==
    {h.violations, h.warnings}
    \cup (IF h.returned = NoReport THEN {} ELSE {h.returned.violations, h.returned.warnings})

Renumbered(h, ref) == Cardinality({ other \in Live(h) : other <= ref })

Collect(h) ==
    [lists |-> [i \in 1..Cardinality(Live(h)) |->
                   h.lists[CHOOSE ref \in Live(h) : Renumbered(h, ref) = i]],
     violations |-> Renumbered(h, h.violations),
     warnings |-> Renumbered(h, h.warnings),
     returned |-> IF h.returned = NoReport THEN NoReport
                  ELSE [h.returned EXCEPT !.violations = Renumbered(h, @),
                                          !.warnings = Renumbered(h, @)]]

AliasRequests == ConcurrentRequests

\* validate_document on the list objects: lines 47-49, the validator, line 57
\* and line 59.
ValidateByReference(req, h) ==
    \E now \in Clock :
        /\ violations' = h.lists[h.violations]
        /\ warnings' = h.lists[h.warnings]
        /\ risk_score' = compute_risk_score(violations', warnings')
        /\ checked_items' = validate_by_kind(Self, req.file_path, req.doc_type).checked_items
        /\ request' = req
        /\ report' = generate_report([violations |-> violations', warnings |-> warnings',
                                      risk_score |-> risk_score',
                                      checked_items |-> checked_items'], now)

AfterCall(req) ==
    append_in_place(reset_lists(heap),
                    validate_by_kind(FreshChecker, req.file_path, req.doc_type))

\* The caller keeps the dict the call returns.
CallAndKeep(req) ==
    \E h \in {AfterCall(req)} :
        /\ ValidateByReference(req, h)
        /\ heap' = Collect([h EXCEPT !.returned = report_by_reference(h, report')])
        /\ kept' = [request |-> req, report |-> report', later |-> 0]
        /\ UNCHANGED << threads, uploads, engine >>

\* A later call on the same checker, its dict not kept.
CallLater(req) ==
    \E h \in {AfterCall(req)} :
        /\ kept # NoKept
        /\ ValidateByReference(req, h)
        /\ heap' = Collect(h)
        /\ kept' = [kept EXCEPT !.later = Min(@ + 1, MaxLater)]
        /\ UNCHANGED << threads, uploads, engine >>

NextAlias == \E req \in AliasRequests : CallAndKeep(req) \/ CallLater(req)

SpecAlias == Init /\ [][NextAlias]_vars

(***************************************************************************)
(* Properties of the reports.                                              *)
(***************************************************************************)
Returned == report # NoReport

\* The findings of a report: its violations followed by its warnings.
Findings(r) == r.violations \o r.warnings

CountSeverity(findings, severities) ==
    Cardinality({ i \in 1..Len(findings) : findings[i].severity \in severities })

BomReturned == Returned /\ request.doc_type = "bom" /\ request.file_path.kind = "table"

\* C1: the status of a report is FAIL exactly when one of its findings, in
\* either list, has severity High.
C1_StatusFailIffHighFinding ==
    Returned =>
        (report.status = "FAIL" <=> CountSeverity(Findings(report), {"HIGH"}) > 0)

\* C2: the risk score of a report is min(100, 15 * High + 5 * (Medium or Low)),
\* the findings counted by severity over both lists.
C2_RiskScoreBySeverity ==
    Returned =>
        report.risk_score =
            Min(100, 15 * CountSeverity(Findings(report), {"HIGH"})
                     + 5 * CountSeverity(Findings(report), {"MEDIUM", "LOW"}))

\* C3: the risk score is an integer in 0..100, does not decrease when a
\* finding is added to either list, and is 100 for 7 or more High findings.
C3_RiskScoreRangeMonotoneSaturating ==
    Returned =>
        /\ report.risk_score \in 0..100
        /\ \A i \in 1..Len(report.violations) :
              compute_risk_score(SubSeq(report.violations, 1, i - 1), report.warnings)
                  <= compute_risk_score(SubSeq(report.violations, 1, i), report.warnings)
        /\ \A i \in 1..Len(report.warnings) :
              compute_risk_score(report.violations, SubSeq(report.warnings, 1, i - 1))
                  <= compute_risk_score(report.violations, SubSeq(report.warnings, 1, i))
        /\ CountSeverity(Findings(report), {"HIGH"}) >= 7 => report.risk_score = 100

\* C4: a validation that produces no finding returns status PASS, risk score
\* 0 and the estimated risk "Minimal risk".
C4_NoFindingMinimalRisk ==
    (Returned /\ Len(Findings(report)) = 0) =>
        /\ report.status = "PASS"
        /\ report.risk_score = 0
        /\ report.summary.estimated_risk = "Minimal risk"

\* A BOM with rows, none of which makes a rule fire, has been validated.
C4_Witness ==
    /\ BomReturned
    /\ Len(request.file_path.content) > 0
    /\ Len(Findings(report)) = 0
    /\ report.summary.estimated_risk = "Minimal risk"

\* "$<digits>.<digit>M potential exposure"
IsMillionsForm(str) ==
    LET suffix == "M potential exposure"
        n == Len(str)
        mid == SubSeq(str, 2, n - Len(suffix))
    IN  /\ n >= Len(suffix) + 4
        /\ CharAt(str, 1) = "$"
        /\ SubSeq(str, n - Len(suffix) + 1, n) = suffix
        /\ CharAt(mid, Len(mid) - 1) = "."
        /\ \A i \in 1..Len(mid) : i # Len(mid) - 1 => IsDigit(CharAt(mid, i))

\* "$<digits in comma-separated groups of three> potential exposure"
IsCommaGroupedForm(str) ==
    LET suffix == " potential exposure"
        n == Len(str)
        mid == SubSeq(str, 2, n - Len(suffix))
    IN  /\ n >= Len(suffix) + 2
        /\ CharAt(str, 1) = "$"
        /\ SubSeq(str, n - Len(suffix) + 1, n) = suffix
        /\ CharAt(mid, 1) \notin {"0", ","}
        /\ \A i \in 1..Len(mid) :
              IF (Len(mid) - i + 1) % 4 = 0 THEN CharAt(mid, i) = ","
              ELSE IsDigit(CharAt(mid, i))

\* C5: the estimated exposure is "Minimal risk" exactly when there is no
\* finding, has the "$X.YM" form exactly when the summed exposure is above
\* 1,000,000, and is comma-grouped dollars in every other case.
C5_ExposureForms ==
    Returned =>
        LET exposure == report.summary.estimated_risk
            total == 50000 * Len(report.violations) + 5000 * Len(report.warnings)
        IN  /\ exposure = "Minimal risk" <=> Len(Findings(report)) = 0
            /\ IsMillionsForm(exposure) <=> total > 1000000
            /\ (Len(Findings(report)) > 0 /\ total <= 1000000) => IsCommaGroupedForm(exposure)
            /\ ~(IsMillionsForm(exposure) /\ IsCommaGroupedForm(exposure))

\* A report whose exposure is exactly 1,000,000 has been generated.
C5_Witness ==
    /\ Returned
    /\ Len(report.violations) = 20
    /\ Len(report.warnings) = 0
    /\ report.summary.estimated_risk = "$1,000,000 potential exposure"

\* C6: the dollar total behind the estimated exposure is 50000 per High
\* finding plus 5000 per Medium finding, whichever list holds the finding
\* (stated for the reports without a Low finding).
C6_ExposureBySeverity ==
    (Returned /\ CountSeverity(Findings(report), {"LOW"}) = 0) =>
        report.summary.estimated_risk =
            format_risk_cost(50000 * CountSeverity(Findings(report), {"HIGH"})
                             + 5000 * CountSeverity(Findings(report), {"MEDIUM"}))

\* C7: every violation has severity High and every warning has severity
\* Medium or Low.
C7_ListsPartitionBySeverity ==
    Returned =>
        /\ \A i \in 1..Len(report.violations) : report.violations[i].severity = "HIGH"
        /\ \A i \in 1..Len(report.warnings) : report.warnings[i].severity \in {"MEDIUM", "LOW"}

\* The position of a BOM rule in the order the loop body evaluates them.
RuleRank(finding) ==
    CASE finding.rule = "ITAR-BOM-001" -> 1
      [] finding.rule = "AS9100-MAT-002" -> 2
      [] finding.rule = "AS9100-SUP-001" -> 3
      [] finding.rule = "AS9100-DATA-001" -> 4

\* The sheet row a BOM finding names: "Row n" or "Row n, Part: ...".
LocationRow(finding) ==
    CHOOSE n \in 2..(Len(request.file_path.content) + 1) :
        \E prefix \in {"Row " \o ToString(n)} :
            \/ finding.location = prefix
            \/ /\ Len(finding.location) > Len(prefix)
               /\ SubSeq(finding.location, 1, Len(prefix) + 1) = prefix \o ","

RuleThenRowOrder(findings) ==
    \A i, j \in 1..Len(findings) :
        i < j => \/ RuleRank(findings[i]) < RuleRank(findings[j])
                 \/ /\ RuleRank(findings[i]) = RuleRank(findings[j])
                    /\ LocationRow(findings[i]) < LocationRow(findings[j])

RowThenRuleOrder(findings) ==
    \A i, j \in 1..Len(findings) :
        i < j => \/ LocationRow(findings[i]) < LocationRow(findings[j])
                 \/ /\ LocationRow(findings[i]) = LocationRow(findings[j])
                    /\ RuleRank(findings[i]) < RuleRank(findings[j])

\* C8 as stated: within each list of a BOM report the findings are in rule
\* order first and, within one rule, in row order.
C8_RuleOrderThenRowOrder ==
    BomReturned => RuleThenRowOrder(report.violations) /\ RuleThenRowOrder(report.warnings)

\* C8 as amended: within each list of a BOM report the findings are in row
\* order first and, within one row, in rule order.
C8_RowOrderThenRuleOrder ==
    BomReturned => RowThenRuleOrder(report.violations) /\ RowThenRuleOrder(report.warnings)

\* A BOM report in which a finding of a later rule on an earlier row precedes
\* a finding of an earlier rule on a later row.
C8_Witness ==
    /\ BomReturned
    /\ \E i, j \in 1..Len(report.violations) :
          /\ i < j
          /\ RuleRank(report.violations[i]) > RuleRank(report.violations[j])
          /\ LocationRow(report.violations[i]) < LocationRow(report.violations[j])

\* C9: a request validated again, after any calls in between, yields the
\* violations, warnings, status, risk score and estimated risk it yielded
\* when its report was kept.
C9_SameRequestSameReport ==
    (kept # NoKept /\ request = kept.request) =>
        /\ report.violations = kept.report.violations
        /\ report.warnings = kept.report.warnings
        /\ report.status = kept.report.status
        /\ report.risk_score = kept.report.risk_score
        /\ report.summary.estimated_risk = kept.report.summary.estimated_risk

\* A request with findings in both lists is validated again after MaxLater
\* validations of other requests.
C9_Witness ==
    /\ kept # NoKept
    /\ request = kept.request
    /\ kept.later = MaxLater
    /\ Len(report.violations) > 0
    /\ Len(report.warnings) > 0

FieldAliases == {part_aliases, material_aliases, supplier_aliases}

\* The column _find_column resolves each field to, per header row of the
\* model, and the frame row of each row of the model under each header row;
\* both worked out once.
ResolvedColumns ==
    [l \in 1..Len(Layouts) |->
        CHOOSE resolved \in
            { [aliases \in FieldAliases |-> find_column(df, aliases)] @@ << >> :
                  df \in {DataFrame(TableFile(l, << >>))} } : TRUE] @@ << >>

FrameRows ==
    [l \in 1..Len(Layouts) |->
        [r \in 1..Len(RowData) |-> DataFrame(TableFile(l, << r >>)).rows[1]] @@ << >>] @@ << >>

\* For the BOM of the last call: the column of a field, and the k-th data row.
Resolved(aliases) == ResolvedColumns[request.file_path.layout][aliases]
FrameRow(k) == FrameRows[request.file_path.layout][request.file_path.content[k]]

\* The 1-based data rows of the validated BOM whose part-number cell is absent.
MissingPartRows ==
    SelectSeq([k \in 1..Len(request.file_path.content) |-> k],
              LAMBDA k : FrameRow(k)[Resolved(part_aliases).label].isna)

MissingPartFindings ==
    SelectSeq(report.violations, LAMBDA f : f.rule = "AS9100-DATA-001")

\* C10: for a BOM with a resolvable part-number column there is one
\* AS9100-DATA-001 finding per row whose part number is absent, in row order,
\* and the finding for the k-th data row has location "Row k+1".
C10_MissingPartNumberFindings ==
    (BomReturned /\ Resolved(part_aliases).some) =>
        /\ Len(MissingPartFindings) = Len(MissingPartRows)
        /\ \A i \in 1..Len(MissingPartFindings) :
              MissingPartFindings[i].location = "Row " \o ToString(MissingPartRows[i] + 1)
        /\ \A i \in 1..Len(report.warnings) : report.warnings[i].rule # "AS9100-DATA-001"

\* A BOM of three rows whose first and third rows lack the part number.
C10_Witness ==
    /\ BomReturned
    /\ request.file_path = TableFile(1, << 2, 3, 2 >>)
    /\ MissingPartRows = << 1, 3 >>
    /\ Len(MissingPartFindings) = 2
    /\ MissingPartFindings[1].location = "Row 2"
    /\ MissingPartFindings[2].location = "Row 4"

(***************************************************************************)
(* Properties of the drawing and BOM checks.                               *)
(***************************************************************************)
\* Letter-by-letter comparison that ignores case, with no lowered copy of
\* either string.
SameLetter(a, b) == LowerChar(a) = LowerChar(b)

OccursAt(text, word, i) ==
    /\ i + Len(word) - 1 <= Len(text)
    /\ \A j \in 1..Len(word) : SameLetter(CharAt(text, i + j - 1), CharAt(word, j))

OccursAnyCase(text, word) == \E i \in 1..Len(text) : OccursAt(text, word, i)

DrawingReturned ==
    Returned /\ request.doc_type = "drawing" /\ request.file_path.kind = "pdf"

RuleCount(findings, rule) ==
    Cardinality({ i \in 1..Len(findings) : findings[i].rule = rule })

HoldsAny(text, words) == \E k \in 1..Len(words) : OccursAnyCase(text, words[k])

\* The lexicon materials a text names, in any case.
MaterialsNamed(text) ==
    { m \in 1..Len(restricted_lexicon) : OccursAnyCase(text, restricted_lexicon[m]) }

\* Where a word first occurs in a text, in any case.
FirstIndex(text, word) ==
    CHOOSE i \in 1..Len(text) :
        OccursAt(text, word, i) /\ \A j \in 1..(i - 1) : ~OccursAt(text, word, j)

LexiconIndex(material) ==
    CHOOSE m \in 1..Len(restricted_lexicon) : restricted_lexicon[m] = material

AtMostOnce(found) == \A i, j \in 1..Len(found) : i # j => found[i] # found[j]

InFirstSeenOrder(text, found) ==
    \A i, j \in 1..Len(found) :
        i < j => FirstIndex(text, found[i]) < FirstIndex(text, found[j])

\* What a drawing text holds, letter by letter, and what the checks of the
\* two modules answer for it.
TextFacts(text) ==
    [text |-> text,
     itar_letters |-> OccursAnyCase(text, "ITAR"),
     export_keyword |-> HoldsAny(text, itar_keywords),
     materials_named |-> MaterialsNamed(text),
     traceability_keyword |-> HoldsAny(text, traceability_keywords),
     itar_marking |-> check_itar_marking(text),
     engine_violations |-> check_itar(text).violations,
     found_materials |-> check_restricted_materials(text),
     first_seen_order |-> InFirstSeenOrder(text, check_restricted_materials(text)),
     revision_marking |-> check_revision_marking(text)]

\* The facts of every PDF of the model, worked out once per file.
DrawingFacts ==
    [f \in PdfFiles(MaxPages) |->
        CHOOSE facts \in { TextFacts(text) : text \in {extract_pdf_text(f).text} } : TRUE]
    @@ << >>

\* The facts of the drawing of the last call.
Facts == DrawingFacts[request.file_path]

DrawingText == Facts.text

\* C11: a drawing text with the letters "ITAR" in any mix of cases passes the
\* export-marking check and gets no ITAR-001 finding, whatever else it holds.
C11_ItarAnyCaseSuppressesFinding ==
    (DrawingReturned /\ Facts.itar_letters) =>
        /\ Facts.itar_marking
        /\ RuleCount(Findings(report), "ITAR-001") = 0
        /\ Facts.engine_violations = << >>

\* A drawing whose second page reads "iTaR" and whose first page names
\* restricted materials: findings are reported, ITAR-001 is not among them.
C11_Witness ==
    /\ DrawingReturned
    /\ request.file_path.content = << 2, 3 >>
    /\ ~Contains(DrawingText, "ITAR")
    /\ Facts.itar_letters
    /\ Len(report.violations) > 0
    /\ RuleCount(Findings(report), "ITAR-001") = 0

\* The cell of the k-th data row under the column a field resolves to.
FieldCell(k, aliases) == RowGet(FrameRow(k), Resolved(aliases), NaN)

FieldCellStr(k, aliases) ==
    CHOOSE str \in { Str(cell) : cell \in {FieldCell(k, aliases)} } : TRUE

FieldPresent(k, aliases) == Resolved(aliases).some /\ ~FieldCell(k, aliases).isna

\* The positions, in a list of a BOM report, of the findings of one rule that
\* name the k-th data row.
RowFindings(findings, rule, k) ==
    { i \in 1..Len(findings) : findings[i].rule = rule /\ LocationRow(findings[i]) = k + 1 }

NamesRestrictedMaterial(str) ==
    \E m \in 1..Len(restricted_bom) : OccursAnyCase(str, restricted_bom[m])

\* C12: a BOM row whose material cell holds a restricted material name, in
\* any case and anywhere in the cell, gets exactly one AS9100-MAT-002 finding,
\* of severity High and located at that row; every other row gets none.
C12_RestrictedMaterialRowFinding ==
    BomReturned =>
        /\ \A k \in 1..Len(request.file_path.content) :
              IF FieldPresent(k, material_aliases)
                 /\ NamesRestrictedMaterial(FieldCellStr(k, material_aliases))
              THEN /\ Cardinality(RowFindings(report.violations, "AS9100-MAT-002", k)) = 1
                   /\ \A i \in RowFindings(report.violations, "AS9100-MAT-002", k) :
                         report.violations[i].severity = "HIGH"
              ELSE RowFindings(report.violations, "AS9100-MAT-002", k) = {}
        /\ RuleCount(report.warnings, "AS9100-MAT-002") = 0

\* A BOM whose first row is aluminum and whose second row is
\* "Cadmium Plating 0.002in": one finding, for the second row.
C12_Witness ==
    /\ BomReturned
    /\ request.file_path = TableFile(1, << 4, 2 >>)
    /\ FieldCellStr(2, material_aliases) = "Cadmium Plating 0.002in"
    /\ RuleCount(report.violations, "AS9100-MAT-002") = 1
    /\ \E i \in 1..Len(report.violations) :
          /\ report.violations[i].rule = "AS9100-MAT-002"
          /\ report.violations[i].severity = "HIGH"
          /\ report.violations[i].location = "Row 3, Part: nan"

\* C13: a call with a document kind other than 'drawing' or 'bom' returns
\* empty violations and warnings and status PASS, whatever the calls before it
\* left in the checker.
C13_OtherKindEmptyPass ==
    (Returned /\ request.doc_type \notin {"drawing", "bom"}) =>
        /\ report.violations = << >>
        /\ report.warnings = << >>
        /\ report.status = "PASS"

\* The call before the one of the other kind returned findings in both lists.
C13_Witness ==
    /\ Returned
    /\ request.doc_type = "specification"
    /\ kept # NoKept
    /\ kept.later = 1
    /\ Len(kept.report.violations) > 0
    /\ Len(kept.report.warnings) > 0
    /\ report.status = "PASS"

\* The call was for a drawing whose text extraction raised, or for a BOM
\* whose table read raised.
DecodeFailed ==
    /\ Returned
    /\ \/ request.doc_type = "drawing" /\ ~extract_pdf_text(request.file_path).ok
       \/ request.doc_type = "bom" /\ ~ReadTable(request.file_path).ok

\* C14 as stated: after a decode failure, of a drawing or of a BOM, the report
\* holds exactly one finding, of severity Low and with a 'manual review
\* recommended' remediation.
C14_DecodeFailureLowManualReview ==
    DecodeFailed =>
        /\ Len(Findings(report)) = 1
        /\ Findings(report)[1].severity = "LOW"
        /\ OccursAnyCase(Findings(report)[1].fix, "manual review recommended")

\* C14 as amended: after a decode failure the report holds exactly one
\* finding, a SYSTEM warning; for a drawing it has severity Low and the
\* remediation 'Manual review recommended', for a BOM severity Medium and the
\* remediation 'Check file format and structure'.
C14_DecodeFailureOneSystemWarning ==
    DecodeFailed =>
        /\ report.violations = << >>
        /\ Len(report.warnings) = 1
        /\ report.warnings[1].rule = "SYSTEM"
        /\ request.doc_type = "drawing" =>
              /\ report.warnings[1].severity = "LOW"
              /\ report.warnings[1].fix = "Manual review recommended"
        /\ request.doc_type = "bom" =>
              /\ report.warnings[1].severity = "MEDIUM"
              /\ report.warnings[1].fix = "Check file format and structure"

\* A BOM that could not be read has been reported, after a call that left
\* rows counted in the checker.
C14_Witness ==
    /\ DecodeFailed
    /\ request.doc_type = "bom"
    /\ checked_items > 0
    /\ Len(report.warnings) = 1
    /\ report.warnings[1].severity = "MEDIUM"
    /\ report.status = "PASS"

\* The report validate_document returns for a request on a checker no other
\* call is using.
\* (at some reading of the clock: its timestamp is never compared)
ReportAlone(req) ==
    generate_report(validate_document(FreshChecker, req.file_path, req.doc_type),
                    CHOOSE now \in Clock : TRUE)

\* C15: under every interleaving of concurrent requests, the report of each
\* request holds the findings, risk score and status its document gets when
\* validated alone.
C15_ConcurrentReportsAsAlone ==
    \A t \in Workers :
        threads[t].pc = "done" =>
            \E alone \in {ReportAlone(threads[t].request)} :
                /\ threads[t].report.violations = alone.violations
                /\ threads[t].report.warnings = alone.warnings
                /\ threads[t].report.risk_score = alone.risk_score
                /\ threads[t].report.status = alone.status

\* The k-th data row has no cell for the field although a column resolves to it.
FieldAbsent(k, aliases) == Resolved(aliases).some /\ FieldCell(k, aliases).isna

\* C16: a row whose part-number cell is absent gets no ITAR-BOM-001 finding,
\* and a row whose material cell is absent gets no AS9100-MAT-002 finding.
C16_AbsentFieldFiresNoPresenceRule ==
    BomReturned =>
        \A k \in 1..Len(request.file_path.content) :
            /\ FieldAbsent(k, part_aliases) =>
                  RowFindings(Findings(report), "ITAR-BOM-001", k) = {}
            /\ FieldAbsent(k, material_aliases) =>
                  RowFindings(Findings(report), "AS9100-MAT-002", k) = {}

\* The k-th data row has no part number: its cell is absent, or no column
\* resolves to the field at all.
PartNumberAbsent(k) == ~Resolved(part_aliases).some \/ FieldCell(k, part_aliases).isna

\* C17: every BOM row without a part number gets an AS9100-DATA-001 finding,
\* also when no column header resolves to the part-number field.
C17_AbsentPartNumberFiresRule ==
    BomReturned =>
        \A k \in 1..Len(request.file_path.content) :
            PartNumberAbsent(k) =>
                RowFindings(Findings(report), "AS9100-DATA-001", k) # {}

\* The orders in which the aliases of a field can be listed.
Reorderings(aliases) ==
    { [i \in 1..Len(aliases) |-> aliases[p[i]]] :
        p \in { q \in [1..Len(aliases) -> 1..Len(aliases)] :
                   \A i, j \in 1..Len(aliases) : i # j => q[i] # q[j] } }

\* The leftmost header that holds one of the aliases, compared letter by
\* letter without regard to case; None without such a header.
LeftmostHeader(columns, aliases) ==
    LET holding == { c \in 1..Len(columns) :
                       \E n \in 1..Len(aliases) : OccursAnyCase(columns[c], aliases[n]) }
    IN  IF holding = {} THEN None
        ELSE Some(columns[CHOOSE c \in holding : \A b \in holding : c <= b])

\* Per header row of the model: for every field and every order of its
\* aliases, _find_column returns the leftmost header that holds an alias.
LeftmostInAnyOrder ==
    [l \in 1..Len(Layouts) |->
        \E df \in {DataFrame(TableFile(l, << >>))} :
            \A aliases \in FieldAliases :
                \A listed \in Reorderings(aliases) :
                    find_column(df, listed) = LeftmostHeader(df.columns, aliases)] @@ << >>

\* C18: _find_column returns the leftmost header that holds any alias of the
\* field, in any case and in whatever order the aliases are listed; with no
\* such header it returns None and the BOM report is produced all the same.
C18_FindColumnLeftmostAnyAlias ==
    BomReturned =>
        /\ LeftmostInAnyOrder[request.file_path.layout]
        /\ \A aliases \in FieldAliases :
              ~Resolved(aliases).some =>
                  /\ RuleCount(Findings(report), "SYSTEM") = 0
                  /\ report.checked_items = Len(request.file_path.content)

\* A BOM whose first header, "Vendor Part", holds the second supplier alias
\* and whose third header, "Supplier", holds the first one: the first header
\* is the supplier column.
C18_Witness ==
    /\ BomReturned
    /\ Len(request.file_path.content) > 0
    /\ DataFrame(TableFile(request.file_path.layout, << >>)).columns
          = << "Vendor Part", "material spec", "Supplier" >>
    /\ Resolved(supplier_aliases) = Some("Vendor Part")
    /\ Resolved(material_aliases) = Some("material spec")

\* 1 when the condition holds, 0 otherwise.
OneIf(condition) == IF condition THEN 1 ELSE 0

MaterialFindingCount(findings, material) ==
    Cardinality({ i \in 1..Len(findings) :
                    /\ findings[i].rule = "AS9100-MAT-001"
                    /\ findings[i].description = "Restricted material detected: " \o material })

\* C19: for a decoded drawing each of the four checks is made whatever the
\* others found: ITAR-001 is reported iff no export keyword is present, one
\* AS9100-MAT-001 per restricted material present, AS9100-DOC-002 iff no
\* revision pattern matches, AS9100-TRACE-001 iff no traceability keyword is
\* present, and nothing else is reported.
C19_DrawingChecksIndependent ==
    DrawingReturned =>
        \E facts \in {Facts} :
            /\ RuleCount(Findings(report), "ITAR-001") = OneIf(~facts.export_keyword)
            /\ \A m \in 1..Len(restricted_lexicon) :
                  MaterialFindingCount(Findings(report), restricted_lexicon[m])
                      = OneIf(m \in facts.materials_named)
            /\ RuleCount(Findings(report), "AS9100-DOC-002") = OneIf(~facts.revision_marking)
            /\ RuleCount(Findings(report), "AS9100-TRACE-001")
                  = OneIf(~facts.traceability_keyword)
            /\ Len(Findings(report))
                  = OneIf(~facts.export_keyword)
                    + Cardinality(facts.materials_named)
                    + OneIf(~facts.revision_marking)
                    + OneIf(~facts.traceability_keyword)

\* A drawing for which all four checks report: no export keyword, two
\* restricted materials, no revision mark, no traceability keyword.
C19_Witness ==
    /\ DrawingReturned
    /\ request.file_path.content = << 2 >>
    /\ RuleCount(report.violations, "ITAR-001") = 1
    /\ RuleCount(report.violations, "AS9100-MAT-001") = 2
    /\ RuleCount(report.warnings, "AS9100-DOC-002") = 1
    /\ RuleCount(report.violations, "AS9100-TRACE-001") = 1

MaterialFindings == SelectSeq(report.violations, LAMBDA f : f.rule = "AS9100-MAT-001")

\* C20 as stated: the detected materials hold each lexicon material at most
\* once and are listed in the order in which the text first names them.
C20_MaterialsOnceInFirstSeenOrder ==
    DrawingReturned =>
        \E facts \in {Facts} :
            /\ AtMostOnce(facts.found_materials)
            /\ facts.first_seen_order

\* C20 as amended: the detected materials are the lexicon materials the text
\* names, each once however often and in whatever case it occurs, listed in
\* lexicon order; the AS9100-MAT-001 findings follow that list.
C20_MaterialsOnceInLexiconOrder ==
    DrawingReturned =>
        \E facts \in {Facts} :
        \E found \in {facts.found_materials} :
            /\ AtMostOnce(found)
            /\ { LexiconIndex(found[i]) : i \in 1..Len(found) } = facts.materials_named
            /\ \A i, j \in 1..Len(found) :
                  i < j => LexiconIndex(found[i]) < LexiconIndex(found[j])
            /\ MaterialFindings = [i \in 1..Len(found) |-> MaterialFinding(found[i])]

\* A text that names lead before cadmium, and cadmium four times in three
\* spellings: cadmium is listed once, before lead.
C20_Witness ==
    /\ DrawingReturned
    /\ request.file_path.content = << 2, 4 >>
    /\ FirstIndex(DrawingText, "lead") < FirstIndex(DrawingText, "cadmium")
    /\ Facts.found_materials = << "cadmium", "lead" >>
    /\ ~Facts.first_seen_order
    /\ Len(MaterialFindings) = 2
    /\ MaterialFindings[1].description = "Restricted material detected: cadmium"

\* The keys of the dict _generate_report builds (lines 284-296).
ReportKeys ==
    {"status", "risk_score", "violations", "warnings", "checked_items", "timestamp", "summary"}
SummaryKeys == {"total_violations", "total_warnings", "estimated_risk"}

\* The file of the last call is one its validator cannot decode.
Undecodable ==
    \/ request.doc_type = "drawing" /\ request.file_path.kind # "pdf"
    \/ request.doc_type = "bom" /\ request.file_path.kind # "table"

\* C21: every call of validate_document, whatever the document kind and the
\* file, returns instead of raising, and what it returns is a complete report:
\* status, risk_score, violations, warnings, checked_items, timestamp and a
\* summary; a file that cannot be decoded shows as a SYSTEM finding in it.
C21_AlwaysReturnsCompleteReport ==
    request # NoRequest =>
        /\ DOMAIN report = ReportKeys
        /\ DOMAIN report.summary = SummaryKeys
        /\ report.status \in {"PASS", "FAIL"}
        /\ report.timestamp \in { isoformat(now) : now \in Clock }
        /\ Undecodable => RuleCount(Findings(report), "SYSTEM") = 1

\* A drawing that is no PDF has been validated and a report came back.
C21_Witness ==
    /\ request.doc_type = "drawing"
    /\ request.file_path = CorruptFile
    /\ DOMAIN report = ReportKeys
    /\ report.warnings[1].rule = "SYSTEM"
    /\ report.summary.total_warnings = 1

\* C22: in any sequence of calls on the one checker, the violations, the
\* warnings and the risk score of the report a call returns are those its
\* document gets on a checker that has validated nothing before: no finding
\* of an earlier call appears in it.
C22_ReportDependsOnOwnDocumentOnly ==
    Returned =>
        \E alone \in {ReportAlone(request)} :
            /\ report.violations = alone.violations
            /\ report.warnings = alone.warnings
            /\ report.risk_score = alone.risk_score

\* A drawing without findings is reported right after a BOM whose report held
\* findings in both lists.
C22_Witness ==
    /\ kept # NoKept
    /\ kept.later = 1
    /\ kept.request.doc_type = "bom"
    /\ Len(kept.report.violations) > 0
    /\ Len(kept.report.warnings) > 0
    /\ request.doc_type = "drawing"
    /\ request.file_path.kind = "pdf"
    /\ report.violations = << >>
    /\ report.warnings = << >>
    /\ report.risk_score = 0

\* The number of rows of the document of the last call: those of the table a
\* BOM was read into, 0 for every other document.
RowsOfOwnDocument ==
    IF request.doc_type = "bom" /\ request.file_path.kind = "table"
    THEN Len(request.file_path.content)
    ELSE 0

\* C23: the checked_items of every report is the number of rows of the
\* document that same call validated (0 for a drawing, for a document kind
\* without validator and for a BOM that could not be read), never the row
\* count of a BOM validated by an earlier call.
C23_CheckedItemsOfOwnDocument ==
    Returned => report.checked_items = RowsOfOwnDocument

\* C24: a report a caller keeps is not changed by any later call on the same
\* checker: its violations, warnings, status, risk score and summary read
\* through the kept dict are those it held when it was returned.
C24_KeptReportUnchangedByLaterCalls ==
    kept # NoKept =>
        \E held \in {Dereferenced(heap, heap.returned)} :
            /\ held.violations = kept.report.violations
            /\ held.warnings = kept.report.warnings
            /\ held.status = kept.report.status
            /\ held.risk_score = kept.report.risk_score
            /\ held.summary = kept.report.summary

\* A report with findings in both lists is held while MaxLater later calls,
\* the last one appending findings of its own, went through the checker.
C24_Witness ==
    /\ kept # NoKept
    /\ kept.later = MaxLater
    /\ Len(kept.report.violations) > 0
    /\ Len(kept.report.warnings) > 0
    /\ request # kept.request
    /\ Len(violations) > 0
    /\ heap.returned.violations # heap.violations
    /\ Dereferenced(heap, heap.returned).violations # violations

\* C25: when requests whose uploads have the same file name run at the same
\* time, every response is the report of the request's own upload: no
\* request validates the bytes of another, and none fails because another
\* overwrote or removed the file at the path they share.
C25_SameNameUploadsKeepOwnReports ==
    \A t \in Workers :
        threads[t].pc = "done" =>
            /\ DOMAIN threads[t].report = ReportKeys
            /\ \E alone \in {ReportAlone(threads[t].request)} :
                  /\ threads[t].report.violations = alone.violations
                  /\ threads[t].report.warnings = alone.warnings
                  /\ threads[t].report.status = alone.status
                  /\ threads[t].report.risk_score = alone.risk_score

\* C26: ComplianceEngine.calculate_risk_score never exceeds 100, and is never
\* lower after a violation or a warning was added to its inputs than it was
\* before.
C26_EngineScoreMonotoneAtMost100 ==
    engine.called =>
        /\ engine.score <= 100
        /\ engine.added => engine.score >= engine.previous
====
